---- MODULE Spec2Model ----
(***************************************************************************)
(* Chat-session and API-key-rotation subsystem of src/app.py.              *)
(*                                                                         *)
(* The module has two families of operations that share no state:          *)
(*   - the credential rotator (rotate_key) and the retry orchestrator      *)
(*     (retry_request), exercised by direct calls;                         *)
(*   - the session store (load_session, save_session), exercised by direct *)
(*     calls, and the /chat handler chat_with_medical_assistant.           *)
(* All handlers are "async def" and run on one event loop, so every        *)
(* stretch of code without an await is one atomic step.                    *)
(***************************************************************************)
EXTENDS Integers, Sequences, FiniteSets, TLC

VARIABLES
    current_key_index,  \* app.py:27   global index into API_KEYS
    model,              \* app.py:147  global client, bound to one credential
    rotateLog,          \* history: outcome of every rotate_key() call so far
    retry,              \* the frame of the running retry_request() call
    issued,             \* history: credential indices an upstream call used
    files,              \* the directory SESSION_FOLDER: session_id -> file
    backup_sessions,    \* the directory backup_sessions
    clock,              \* the wall clock read by time.strftime
    saving,             \* the frame of save_session between open and close
    last                \* history: the last store call or /chat request

vars == <<current_key_index, model, rotateLog, retry, issued,
          files, backup_sessions, clock, saving, last>>

keyVars == <<current_key_index, model, rotateLog, retry, issued>>
storeVars == <<files, backup_sessions, clock, saving, last>>

----------------------------------------------------------------------------
(* Bounds of the model *)

MaxRotateCalls == 4
MaxTurns == 2
MaxClock == 1

----------------------------------------------------------------------------
(* Credential rotator: app.py:21-27, 66-88 *)

API_KEYS == <<"GEMINI_API_KEY_1", "GEMINI_API_KEY_2", "GEMINI_API_KEY_3">>

\* initialize_gemini(): the client configured from API_KEYS[index]. The
\* genai library is outside the repository; building a client never fails.
InitializeGeminiStale(index) == [key_index |-> 0]

InitializeGemini(index) == [key_index |-> index]

CanRotateOffByOne(index) == index < Len(API_KEYS)

\* app.py:82   if current_key_index < len(API_KEYS) - 1
CanRotate(index) == index < Len(API_KEYS) - 1

NextKeyIndexWrap(index) == (index + 1) % (Len(API_KEYS) - 1)

NextKeyIndexSkips(index) == index + 2

\* app.py:83   current_key_index += 1
NextKeyIndex(index) == index + 1

\* rotate_key(), branch of app.py:82-85. No await: one atomic step.
RotateKeyOk ==
    /\ Len(rotateLog) < MaxRotateCalls
    /\ CanRotate(current_key_index)
    /\ current_key_index' = NextKeyIndex(current_key_index)
    /\ model' = InitializeGemini(current_key_index')
    /\ rotateLog' = Append(rotateLog, [outcome |-> "ok",
                                       index |-> current_key_index',
                                       model |-> model'])
    /\ UNCHANGED <<retry, issued, storeVars>>

\* rotate_key(), branch of app.py:86-88: HTTPException(500, "All API keys
\* have been used...").
RotateKeyExhausted ==
    /\ Len(rotateLog) < MaxRotateCalls
    /\ ~CanRotate(current_key_index)
    /\ rotateLog' = Append(rotateLog, [outcome |-> "exhausted",
                                       index |-> current_key_index,
                                       model |-> model])
    /\ UNCHANGED <<current_key_index, model, retry, issued, storeVars>>

----------------------------------------------------------------------------
(* Retry orchestrator: app.py:90-101 *)

Retries == 3
Delay == 5

\* What one invocation of func can do: return, raise QuotaExceededError,
\* raise any other exception.
FuncOutcomes == {"ok", "quota", "error"}

\* app.py:95   except Exception  (QuotaExceededError is an Exception too)
Caught(outcome) == outcome \in {"quota", "error"}

\* app.py:96   if attempt == retries - 1
LastAttempt(attempt) == attempt = Retries - 1

BackoffConstant(delay) == delay

\* app.py:101  delay *= 2
Backoff(delay) == delay * 2

NoResult == [kind |-> "none", call |-> 0, what |-> "none"]

RetryIdle == [pc |-> "idle", attempt |-> 0, delay |-> Delay,
              outcomes |-> <<>>, waits |-> <<>>, calls |-> <<>>,
              result |-> NoResult]

\* app.py:255-257  func is generate_content: it reads the global model when
\* it runs. The record keeps the credential the client was bound to and the
\* index that was current at the call.
GenerateContent == [key |-> model.key_index, index |-> current_key_index]

\* A caller enters retry_request(func) with the default retries and delay.
RetryStart ==
    /\ retry.pc \in {"idle", "done"}
    /\ retry' = [RetryIdle EXCEPT !.pc = "call"]
    /\ UNCHANGED <<current_key_index, model, rotateLog, issued, storeVars>>

\* app.py:94   return await func()      (func returned)
RetryReturn ==
    /\ retry.pc = "call"
    /\ retry' = [retry EXCEPT
                   !.outcomes = Append(@, "ok"),
                   !.calls = Append(@, GenerateContent),
                   !.result = [kind |-> "return",
                               call |-> Len(retry.outcomes) + 1,
                               what |-> "ok"],
                   !.pc = "done"]
    /\ issued' = issued \cup {model.key_index}
    /\ UNCHANGED <<current_key_index, model, rotateLog, storeVars>>

\* app.py:95-98   func raised on the last attempt: bare "raise"
RetryRaise(outcome) ==
    /\ retry.pc = "call"
    /\ Caught(outcome)
    /\ LastAttempt(retry.attempt)
    /\ retry' = [retry EXCEPT
                   !.outcomes = Append(@, outcome),
                   !.calls = Append(@, GenerateContent),
                   !.result = [kind |-> "raise",
                               call |-> Len(retry.outcomes) + 1,
                               what |-> outcome],
                   !.pc = "done"]
    /\ issued' = issued \cup {model.key_index}
    /\ UNCHANGED <<current_key_index, model, rotateLog, storeVars>>

\* app.py:95-100  func raised on an earlier attempt: await asyncio.sleep(delay)
RetryBackoff(outcome) ==
    /\ retry.pc = "call"
    /\ Caught(outcome)
    /\ ~LastAttempt(retry.attempt)
    /\ retry' = [retry EXCEPT
                   !.outcomes = Append(@, outcome),
                   !.calls = Append(@, GenerateContent),
                   !.pc = "sleep"]
    /\ issued' = issued \cup {model.key_index}
    /\ UNCHANGED <<current_key_index, model, rotateLog, storeVars>>

\* app.py:100-101, 92   the sleep ends, delay doubles, next loop iteration
RetryWake ==
    /\ retry.pc = "sleep"
    /\ retry' = [retry EXCEPT
                   !.waits = Append(@, retry.delay),
                   !.delay = Backoff(@),
                   !.attempt = @ + 1,
                   !.pc = "call"]
    /\ UNCHANGED <<current_key_index, model, rotateLog, issued, storeVars>>

----------------------------------------------------------------------------
(* Session store: app.py:28-64 *)

\* Session ids a caller can supply. "" is what the handler's validation is
\* about; "a/b" names a path under a directory sessions/a that nothing in
\* the program creates (app.py:29 creates SESSION_FOLDER only).
SessionIds == {"", "abc", "a/b"}

\* Ids used by the direct store calls.
StoreIds == {"abc", "a/b"}

TurnSet == {[role |-> "user", text |-> "hi"],
            [role |-> "assistant", text |-> "ok"]}

RECURSIVE SeqsUpTo(_, _)
SeqsUpTo(S, n) ==
    IF n = 0 THEN {<<>>}
    ELSE LET shorter == SeqsUpTo(S, n - 1)
         IN shorter \cup {Append(T, x) : T \in shorter, x \in S}

TurnSeqs == SeqsUpTo(TurnSet, MaxTurns)

\* File contents are sequences of JSON tokens.
LB == [tok |-> "[", role |-> "", text |-> ""]
RB == [tok |-> "]", role |-> "", text |-> ""]
COMMA == [tok |-> ",", role |-> "", text |-> ""]
Obj(turn) == [tok |-> "{}", role |-> turn.role, text |-> turn.text]

NoFile == [exists |-> FALSE, content |-> <<>>]
File(content) == [exists |-> TRUE, content |-> content]

RECURSIVE DumpItems(_)
DumpItems(T) ==
    IF T = <<>> THEN <<>>
    ELSE IF Len(T) = 1 THEN <<Obj(T[1])>>
    ELSE <<Obj(T[1]), COMMA>> \o DumpItems(Tail(T))

\* app.py:61   json.dump(session_data, f)
JsonDump(T) == <<LB>> \o DumpItems(T) \o <<RB>>

\* json.load succeeds on a bracketed, comma-separated list of objects.
JsonValid(s) ==
    /\ Len(s) >= 2
    /\ s[1] = LB
    /\ s[Len(s)] = RB
    /\ \/ Len(s) = 2
       \/ /\ Len(s) % 2 = 1
          /\ \A i \in 2..(Len(s) - 1) :
                IF i % 2 = 0 THEN s[i].tok = "{}" ELSE s[i] = COMMA

\* app.py:41   json.load(f)
JsonLoad(s) ==
    [i \in 1..((Len(s) - 1) \div 2) |-> [role |-> s[2 * i].role,
                                         text |-> s[2 * i].text]]

\* Unparsable contents a session file can hold when the process starts.
CorruptContents == {<<LB>>, <<LB, Obj([role |-> "user", text |-> "hi"])>>}

\* app.py:60   open(session_file, "w") raises when the directory of the
\* path does not exist.
WriteFails(session_id) == session_id = "a/b"

BackupMoveLosesContent(bk, session_id, now, content) ==
    {b \in bk : ~(b.sid = session_id /\ b.stamp = now)}
        \cup {[sid |-> session_id, stamp |-> now, content |-> <<>>]}

QuarantineResets(fs, session_id) == [fs EXCEPT ![session_id] = File(JsonDump(<<>>))]

\* app.py:48   shutil.move(session_file, backup_file): the source is gone
Quarantine(fs, session_id) == [fs EXCEPT ![session_id] = NoFile]

\* app.py:46-48   the backup file, named by session id and timestamp; a
\* file of the same name is replaced.
BackupMove(bk, session_id, now, content) ==
    {b \in bk : ~(b.sid = session_id /\ b.stamp = now)}
        \cup {[sid |-> session_id, stamp |-> now, content |-> content]}

LoadSessionQuarantinesAll(fs, bk, now, session_id) ==
    IF fs[session_id].exists
    THEN [data |-> <<>>,
          files |-> Quarantine(fs, session_id),
          backup |-> BackupMove(bk, session_id, now, fs[session_id].content)]
    ELSE [data |-> <<>>, files |-> fs, backup |-> bk]

\* load_session(session_id): the value returned and the directories after.
LoadSession(fs, bk, now, session_id) ==
    IF fs[session_id].exists
    THEN IF JsonValid(fs[session_id].content)
         THEN [data |-> JsonLoad(fs[session_id].content),
               files |-> fs, backup |-> bk]
         ELSE [data |-> <<>>,
               files |-> Quarantine(fs, session_id),
               backup |-> BackupMove(bk, session_id, now,
                                     fs[session_id].content)]
    ELSE [data |-> <<>>, files |-> fs, backup |-> bk]

\* save_session(session_id, session_data): the directory after. A failed
\* write is logged and swallowed (app.py:63-64).
SaveSession(fs, session_id, session_data) ==
    IF WriteFails(session_id) THEN fs
    ELSE [fs EXCEPT ![session_id] = File(JsonDump(session_data))]

NoLast == [op |-> "none", sid |-> "", prompt |-> "", upstream |-> "",
           turns |-> <<>>, data |-> <<>>, status |-> 0,
           detail |-> <<"", "">>, response |-> "",
           loaded |-> FALSE, follows_save |-> FALSE,
           before |-> files, after |-> files,
           backup_before |-> backup_sessions,
           backup_after |-> backup_sessions,
           now |-> clock, mid_save |-> FALSE,
           kind |-> "none", prev_kind |-> "none",
           prev_detail |-> <<"", "">>, calls |-> <<>>]

NoSaving == [active |-> FALSE, sid |-> "", turns |-> <<>>,
             before |-> [s \in SessionIds |-> NoFile]]

LoopFreeAlways == TRUE

\* The handlers are coroutines of one event loop and save_session has no
\* await (app.py:56-64): from its open to its close no other code of the
\* program runs.
LoopFree == ~saving.active

\* Whether the record of session_id is in the middle of being saved.
MidSave(session_id) == saving.active /\ saving.sid = session_id

\* app.py:60   open(session_file, "w") creates or truncates the file
OpenForWrite(fs, session_id) == [fs EXCEPT ![session_id] = File(<<>>)]

\* A direct call save_session(session_id, T): the file is opened.
SaveOpen(session_id, T) ==
    /\ LoopFree
    /\ ~WriteFails(session_id)
    /\ files' = OpenForWrite(files, session_id)
    /\ saving' = [active |-> TRUE, sid |-> session_id, turns |-> T,
                  before |-> files]
    /\ UNCHANGED <<backup_sessions, clock, last, keyVars>>

\* app.py:61-62   json.dump writes the turns, the file is closed.
SaveWrite ==
    /\ saving.active
    /\ files' = SaveSession(files, saving.sid, saving.turns)
    /\ saving' = NoSaving
    /\ last' = [NoLast EXCEPT !.op = "save", !.sid = saving.sid,
                              !.turns = saving.turns,
                              !.before = saving.before, !.after = files']
    /\ UNCHANGED <<backup_sessions, clock, keyVars>>

\* A direct call save_session(session_id, T) whose open raises: the error
\* is logged and the call returns (app.py:63-64).
SaveOpenFails(session_id, T) ==
    /\ LoopFree
    /\ WriteFails(session_id)
    /\ files' = SaveSession(files, session_id, T)
    /\ last' = [NoLast EXCEPT !.op = "save", !.sid = session_id,
                              !.turns = T, !.after = files']
    /\ UNCHANGED <<backup_sessions, clock, saving, keyVars>>

\* A direct call load_session(session_id).
Load(session_id) ==
    LET r == LoadSession(files, backup_sessions, clock, session_id)
    IN /\ LoopFree
       /\ files' = r.files
       /\ backup_sessions' = r.backup
       /\ last' = [NoLast EXCEPT
                     !.op = "load", !.sid = session_id, !.data = r.data,
                     !.turns = last.turns,
                     !.follows_save = (last.op = "save"
                                       /\ last.sid = session_id),
                     !.loaded = TRUE,
                     !.mid_save = MidSave(session_id),
                     !.after = r.files, !.backup_after = r.backup]
       /\ UNCHANGED <<clock, saving, keyVars>>

\* Time passes.
Tick ==
    /\ clock < MaxClock
    /\ clock' = clock + 1
    /\ UNCHANGED <<files, backup_sessions, saving, last, keyVars>>

----------------------------------------------------------------------------
(* Chat endpoint: app.py:191-282 *)

\* Prompts: whitespace only, a greeting, a question.
Prompts == {"  ", "hi", "what is flu"}

\* What the upstream API would answer to the calls of a request: text, or
\* quota exhaustion on every credential.
Upstreams == {"answers", "quota"}

WELCOME == "Hello! I'm Smart Doctor, your medical chat assistant. ..."
GREETING_REPLY == "Hi there! I'm Smart Doctor, ready to help ..."

\* app.py:280-282   except Exception as e: raise HTTPException(500,
\* f"Unexpected error: {str(e)}"). HTTPException is an Exception, so the
\* handler's own HTTPExceptions are caught here as well.
WrapUnexpectedNoAnswer(e) ==
    [status |-> 0, kind |-> "unexpected", detail |-> <<"", "">>]

WrapUnexpected(e) ==
    [status |-> 500, kind |-> "unexpected",
     detail |-> <<"Unexpected error: ", e>>]

\* app.py:196-197   if not session_id: raise HTTPException(422, ...)
InvalidSessionId(session_id) == session_id = ""

\* chat_with_medical_assistant(session_id, prompt), whole handler.
\*   app.py:196-197  an empty session_id raises HTTPException(422), which
\*                   the handler's outer except turns into a 500;
\*   app.py:200      load_session(session_id);
\*   app.py:204      evaluating the name BOS, bound nowhere in the module
\*                   nor in builtins, raises NameError before the rest of
\*                   the condition is looked at; the outer except turns it
\*                   into a 500. Lines 205-278 are never reached, so the
\*                   request issues no upstream call (app.py:260, 271).
Chat(session_id, prompt, upstream) ==
    LET generate_calls == <<>>
        r == IF InvalidSessionId(session_id)
             THEN [data |-> <<>>, files |-> files, backup |-> backup_sessions]
             ELSE LoadSession(files, backup_sessions, clock, session_id)
        raised == IF InvalidSessionId(session_id)
                  THEN WrapUnexpected("422: session_id is required")
                  ELSE WrapUnexpected("name 'BOS' is not defined")
    IN /\ LoopFree
       /\ files' = r.files
       /\ backup_sessions' = r.backup
       /\ last' = [NoLast EXCEPT
                     !.op = "chat", !.sid = session_id, !.prompt = prompt,
                     !.upstream = upstream, !.data = r.data,
                     !.loaded = ~InvalidSessionId(session_id),
                     !.mid_save = MidSave(session_id),
                     !.status = raised.status, !.detail = raised.detail,
                     !.kind = raised.kind, !.calls = generate_calls,
                     !.prev_kind = last.kind, !.prev_detail = last.detail,
                     !.after = r.files, !.backup_after = r.backup]
       /\ UNCHANGED <<clock, saving, keyVars>>

----------------------------------------------------------------------------
(* Session retrieval endpoint: app.py:180-189 *)

\* Ids the route /session/{session_id} can carry: a path segment, so not
\* empty and without "/".
GetIds == {"abc"}

\* app.py:187-189   except Exception as e: raise HTTPException(500,
\* f"Error retrieving session: {str(e)}"); it catches the 404 of line 185.
WrapRetrieve(e) ==
    [status |-> 500, kind |-> "retrieve",
     detail |-> <<"Error retrieving session: ", e>>]

\* app.py:184   if not session_data
NoSessionData(session_data) == session_data = <<>>

\* get_session(session_id), whole handler.
GetSession(session_id) ==
    LET r == LoadSession(files, backup_sessions, clock, session_id)
        answer == IF NoSessionData(r.data)
                  THEN WrapRetrieve("404: Session not found")
                  ELSE [status |-> 200, kind |-> "none",
                        detail |-> <<"", "">>]
    IN /\ LoopFree
       /\ files' = r.files
       /\ backup_sessions' = r.backup
       /\ last' = [NoLast EXCEPT
                     !.op = "get", !.sid = session_id, !.data = r.data,
                     !.loaded = TRUE,
                     !.mid_save = MidSave(session_id),
                     !.status = answer.status, !.detail = answer.detail,
                     !.kind = answer.kind,
                     !.prev_kind = last.kind, !.prev_detail = last.detail,
                     !.after = r.files, !.backup_after = r.backup]
       /\ UNCHANGED <<clock, saving, keyVars>>

\* is_greeting(prompt), app.py:103-107, on Prompts: "hi" contains the
\* greeting "hi" and has one word; "what is flu" contains no greeting; the
\* whitespace-only prompt strips to "".
IsGreeting(prompt) == prompt = "hi"

----------------------------------------------------------------------------
(* Specifications *)

Init ==
    /\ current_key_index = 0
    /\ model = InitializeGemini(0)
    /\ rotateLog = <<>>
    /\ retry = RetryIdle
    /\ issued = {}
    /\ \E f \in {NoFile, File(JsonDump(<<>>))} \cup {File(c) : c \in CorruptContents} :
          files = [s \in SessionIds |-> IF s = "abc" THEN f ELSE NoFile]
    /\ backup_sessions = {}
    /\ clock = 0
    /\ last = [op |-> "none", sid |-> "", prompt |-> "", upstream |-> "",
               turns |-> <<>>, data |-> <<>>, status |-> 0,
               detail |-> <<"", "">>, response |-> "",
               loaded |-> FALSE, follows_save |-> FALSE,
               before |-> files, after |-> files,
               backup_before |-> {}, backup_after |-> {},
               now |-> 0, mid_save |-> FALSE,
               kind |-> "none", prev_kind |-> "none",
               prev_detail |-> <<"", "">>, calls |-> <<>>]
    /\ saving = [active |-> FALSE, sid |-> "", turns |-> <<>>,
                 before |-> [s \in SessionIds |-> NoFile]]

KeysNext ==
    \/ RotateKeyOk
    \/ RotateKeyExhausted
    \/ RetryStart
    \/ RetryReturn
    \/ \E o \in FuncOutcomes : RetryRaise(o)
    \/ \E o \in FuncOutcomes : RetryBackoff(o)
    \/ RetryWake

StoreNext ==
    \/ \E s \in StoreIds, T \in TurnSeqs : SaveOpen(s, T)
    \/ SaveWrite
    \/ \E s \in StoreIds, T \in TurnSeqs : SaveOpenFails(s, T)
    \/ \E s \in StoreIds : Load(s)
    \/ \E s \in SessionIds, p \in Prompts, u \in Upstreams : Chat(s, p, u)
    \/ \E s \in GetIds : GetSession(s)
    \/ Tick

Next == KeysNext \/ StoreNext

\* The rotator and the retry orchestrator alone.
SpecKeys == Init /\ [][KeysNext]_vars

\* The session store and the chat endpoint alone.
SpecStore == Init /\ [][StoreNext]_vars

Spec == Init /\ [][Next]_vars

----------------------------------------------------------------------------
(* Credential rotator: properties *)

\* C1: in every reachable state current_key_index lies in
\* 0..len(API_KEYS)-1, and every step leaves it unchanged or increases it
\* by exactly 1 (it never decreases, never wraps to 0).
KeyIndexRatchet ==
    /\ [](current_key_index \in 0..(Len(API_KEYS) - 1))
    /\ [][current_key_index' \in {current_key_index,
                                  current_key_index + 1}]_vars

\* The index has been rotated up to the last credential and rotate_key has
\* been called again there.
KeyIndexRatchetWitness ==
    /\ current_key_index = Len(API_KEYS) - 1
    /\ Len(rotateLog) > Len(API_KEYS) - 1

\* C2: from index 0 with 3 credentials the first rotate_key() call moves
\* the index to 1, the second to 2, and every later call (the index is the
\* last one) fails with the exhausted error and changes neither the index
\* nor the client.
RotateThreeTimes ==
    /\ Len(API_KEYS) = 3
    /\ Len(rotateLog) >= 1 =>
          rotateLog[1] = [outcome |-> "ok", index |-> 1,
                          model |-> InitializeGemini(1)]
    /\ Len(rotateLog) >= 2 =>
          rotateLog[2] = [outcome |-> "ok", index |-> 2,
                          model |-> InitializeGemini(2)]
    /\ \A k \in 3..Len(rotateLog) :
          rotateLog[k] = [outcome |-> "exhausted", index |-> 2,
                          model |-> InitializeGemini(2)]
    /\ Len(rotateLog) >= 2 => current_key_index = 2

\* Three successive calls have been made; the third one failed.
RotateThreeTimesWitness ==
    /\ Len(rotateLog) >= 3
    /\ rotateLog[3].outcome = "exhausted"

----------------------------------------------------------------------------
(* Retry orchestrator: properties *)

AllFailed(outcomes) == \A i \in 1..Len(outcomes) : outcomes[i] # "ok"

\* C3: retry_request(func) with retries=3, delay=5 invokes func at most 3
\* times; a successful attempt is the last invocation and its result is
\* what is returned; the waits between failed attempts are 5 then 10, one
\* after each failed attempt but the last; when all 3 attempts fail the
\* error of the third is raised to the caller.
RetryRequestContract ==
    LET n == Len(retry.outcomes)
        w == Len(retry.waits)
    IN /\ n <= 3
       /\ \A i \in 1..n :
             retry.outcomes[i] = "ok" =>
                /\ i = n
                /\ retry.pc = "done"
                /\ retry.result = [kind |-> "return", call |-> i,
                                   what |-> "ok"]
       /\ w <= 2
       /\ retry.waits = SubSeq(<<5, 10>>, 1, w)
       /\ retry.pc \in {"done", "sleep"} => w = n - 1
       /\ retry.pc = "call" => w = n
       /\ (n = 3 /\ AllFailed(retry.outcomes)) =>
             /\ retry.pc = "done"
             /\ retry.result = [kind |-> "raise", call |-> 3,
                                what |-> retry.outcomes[3]]
       /\ (retry.pc = "done" /\ AllFailed(retry.outcomes)) => n = 3

\* All three attempts failed, with waits of 5 and 10 between them.
RetryRequestWitness ==
    /\ retry.pc = "done"
    /\ retry.result.kind = "raise"
    /\ Len(retry.outcomes) = 3
    /\ retry.waits = <<5, 10>>

\* C4: a quota-exhaustion failure of func is not retried with backoff: it
\* is the last invocation, it is raised to the caller, and no wait follows
\* it.
QuotaNotRetried ==
    \A i \in 1..Len(retry.outcomes) :
        retry.outcomes[i] = "quota" =>
            /\ i = Len(retry.outcomes)
            /\ retry.pc = "done"
            /\ retry.result = [kind |-> "raise", call |-> i,
                               what |-> "quota"]
            /\ Len(retry.waits) = i - 1

----------------------------------------------------------------------------
(* Chat endpoint: properties *)

\* C5: a chat request (valid session id, question prompt) for which the
\* upstream answers quota exhaustion on every credential ends with status
\* 429 (all credentials exhausted).
QuotaExhaustedGives429 ==
    (/\ last.op = "chat"
     /\ ~InvalidSessionId(last.sid)
     /\ last.prompt = "what is flu"
     /\ last.upstream = "quota")
        => last.status = 429

\* C6, as claimed: after a failed non-greeting chat request the session
\* file of its session_id is identical to the file before the request.
FailedChatLeavesFileIdentical ==
    (/\ last.op = "chat"
     /\ ~IsGreeting(last.prompt)
     /\ last.status >= 400)
        => last.after[last.sid] = last.before[last.sid]

\* C6, amended: a failed non-greeting chat request never writes the session
\* file: afterwards the file is identical, or it was unparsable and
\* load_session has moved it, content unchanged, to the backup directory.
FailedChatNeverWrites ==
    (/\ last.op = "chat"
     /\ ~IsGreeting(last.prompt)
     /\ last.status >= 400)
        => \/ /\ last.after[last.sid] = last.before[last.sid]
              /\ last.backup_after = last.backup_before
           \/ /\ last.before[last.sid].exists
              /\ ~JsonValid(last.before[last.sid].content)
              /\ last.after[last.sid] = NoFile
              /\ \E b \in last.backup_after :
                    /\ b.sid = last.sid
                    /\ b.content = last.before[last.sid].content

\* A question on a session that has persisted turns failed, and the file
\* still holds those turns.
FailedChatWitness ==
    /\ last.op = "chat"
    /\ last.prompt = "what is flu"
    /\ last.status = 500
    /\ Len(last.data) > 0
    /\ last.before[last.sid] = File(JsonDump(last.data))
    /\ last.after[last.sid] = last.before[last.sid]

\* C7: a chat request with an empty session_id ends with status 422, and
\* no session is loaded, created or modified.
EmptySessionIdGives422 ==
    (last.op = "chat" /\ last.sid = "")
        => /\ last.status = 422
           /\ ~last.loaded
           /\ last.after = last.before
           /\ last.backup_after = last.backup_before

\* C8: a chat request with a whitespace-only prompt on a session with empty
\* history succeeds with the fixed welcome message and leaves the session
\* store unchanged.
WelcomeOnFirstContact ==
    (/\ last.op = "chat"
     /\ ~InvalidSessionId(last.sid)
     /\ last.prompt = "  "
     /\ last.data = <<>>
     /\ ~last.before[last.sid].exists)
        => /\ last.status = 200
           /\ last.response = WELCOME
           /\ last.after = last.before

\* C9: a greeting request on a session with turns T succeeds with the fixed
\* greeting reply, and afterwards the persisted session is T followed by
\* the user turn and the assistant turn with the greeting reply.
GreetingPersistsTwoTurns ==
    (/\ last.op = "chat"
     /\ ~InvalidSessionId(last.sid)
     /\ ~WriteFails(last.sid)
     /\ IsGreeting(last.prompt))
        => /\ last.status = 200
           /\ last.response = GREETING_REPLY
           /\ last.after[last.sid] =
                 File(JsonDump(last.data \o
                     <<[role |-> "user", text |-> last.prompt],
                       [role |-> "assistant", text |-> GREETING_REPLY]>>))

----------------------------------------------------------------------------
(* Session store: properties *)

\* C10: for any session_id and turn sequence T, save_session(session_id, T)
\* directly followed by load_session(session_id) returns exactly T.
SaveLoadRoundTrip ==
    (last.op = "load" /\ last.follows_save) => last.data = last.turns


NoPartialRead ==
    last.loaded =>
        /\ ~(last.mid_save /\ ~JsonValid(last.before[last.sid].content))
        /\ (/\ last.before[last.sid].exists
            /\ JsonValid(last.before[last.sid].content))
              => /\ last.data = JsonLoad(last.before[last.sid].content)
                 /\ last.after = last.before
                 /\ last.backup_after = last.backup_before

\* save_session has truncated a record that held turns and has not yet
\* written the new ones.
NoPartialReadWitness ==
    /\ saving.active
    /\ files[saving.sid] = File(<<>>)
    /\ saving.before[saving.sid].exists
    /\ JsonValid(saving.before[saving.sid].content)
    /\ Len(JsonLoad(saving.before[saving.sid].content)) > 0
    /\ Len(saving.turns) > 0


----------------------------------------------------------------------------
(* Endpoints: properties *)

\* C13: the session retrieval endpoint answers 200 with the stored turn
\* sequence whenever a parsable record exists for session_id, a record
\* holding the empty sequence included, and answers 404 exactly when no
\* record exists.
RetrievalDistinguishesAbsent ==
    last.op = "get" =>
        /\ (/\ last.before[last.sid].exists
            /\ JsonValid(last.before[last.sid].content))
              => /\ last.status = 200
                 /\ last.data = JsonLoad(last.before[last.sid].content)
        /\ ~last.before[last.sid].exists <=> last.status = 404

\* C14: a chat request leaves every turn persisted before it in place: the
\* record after the request has the same turn at every position the
\* parsable record before the request had.
ChatKeepsPersistedTurns ==
    (/\ last.op = "chat"
     /\ ~InvalidSessionId(last.sid)
     /\ last.before[last.sid].exists
     /\ JsonValid(last.before[last.sid].content))
        => LET old == JsonLoad(last.before[last.sid].content)
               f == last.after[last.sid]
           IN \A i \in 1..Len(old) :
                 /\ f.exists
                 /\ JsonValid(f.content)
                 /\ Len(JsonLoad(f.content)) >= i
                 /\ JsonLoad(f.content)[i] = old[i]

\* A chat request has run on a session with two persisted turns.
ChatKeepsPersistedTurnsWitness ==
    /\ last.op = "chat"
    /\ last.before[last.sid].exists
    /\ JsonValid(last.before[last.sid].content)
    /\ Len(JsonLoad(last.before[last.sid].content)) = 2
    /\ last.after[last.sid] = last.before[last.sid]

\* C15: the detail returned for a failure depends on the failure kind only,
\* not on the message of the internal exception: two failed requests of
\* the same kind return the same detail.
StableFailureDetail ==
    (/\ last.status >= 400
     /\ last.kind = last.prev_kind)
        => last.detail = last.prev_detail

\* No chat request ends with a successful response: every one is answered
\* by the handler's outer except clause (app.py:280-282).
ChatNeverSucceeds ==
    last.op = "chat" => (last.status = 500 /\ last.kind = "unexpected")

\* C18: every chat request ends with a response or an error, whatever the
\* upstream would answer, and has issued at most 2 x 3 = 6 upstream
\* generate calls.
ChatRequestTerminates ==
    last.op = "chat" =>
        /\ last.status \in {200} \cup (400..599)
        /\ Len(last.calls) <= 2 * Retries

\* A question on a stored session, with the upstream out of quota on every
\* credential, has ended with an error.
ChatRequestTerminatesWitness ==
    /\ last.op = "chat"
    /\ last.prompt = "what is flu"
    /\ last.upstream = "quota"
    /\ last.before[last.sid].exists
    /\ last.status >= 400

====
